---- MODULE Spec2Model ----
(***************************************************************************)
(* Model of TM1py's ElementService (src/TM1py/Services/ElementService.py): *)
(* a stateless client that builds OData URLs and MDX text, sends them over *)
(* a REST transport and parses the JSON that comes back.                   *)
(*                                                                         *)
(* Python values are modelled as tagged records (type, val) so that        *)
(* truthiness and isinstance are computed the way Python computes them.    *)
(* URLs and MDX are real strings.  Every operation is a pure operator      *)
(* that returns the transport calls it issued, its return value and the    *)
(* exception that left it; an action applies one operation to inputs and   *)
(* server answers drawn from small sets and records the outcome.           *)
(***************************************************************************)
EXTENDS Integers, Sequences, FiniteSets, TLC

VARIABLES
    elements,   \* server side: names of the elements that exist in the hierarchy
    created,    \* history: names of the elements ever created successfully
    pc,         \* "call": the operation is about to run; "done": it has run
    op,         \* name of the operation
    args,       \* its arguments
    srv,        \* what the server holds for each transport call of the operation, in order
    calls,      \* the transport calls the operation issued, in order
    result,     \* its return value (NoResult when it raised)
    raised      \* the failure that reached the caller ("none" when it returned)

vars == <<elements, created, pc, op, args, srv, calls, result, raised>>

----------------------------------------------------------------------------
(* Bounds of the model *)

\* largest number of nodes of a server-side consolidation tree
MaxNodes == 4
\* largest max_depth argument tried
MaxDepthArg == 2
\* longest list of names or attributes the server answers with
MaxList == 2
\* most rows of an MDX answer
MaxRows == 2
\* largest top_records argument tried
MaxTop == 2

----------------------------------------------------------------------------
(* Python values *)

None == [type |-> "NoneType"]
PyInt(v) == [type |-> "int", val |-> v]
PyStr(s) == [type |-> "str", val |-> s]
PyFloat(s) == [type |-> "float", val |-> s]
PyList(q) == [type |-> "list", val |-> q]

\* bool(x) as Python computes it
Truthy(x) ==
    CASE x.type = "NoneType" -> FALSE
      [] x.type = "int" -> x.val # 0
      [] x.type = "float" -> x.val # 0
      [] x.type = "str" -> x.val # ""
      [] x.type = "list" -> Len(x.val) > 0

\* isinstance(x, str)
IsStr(x) == x.type = "str"

NoResult == "NoResult"

----------------------------------------------------------------------------
(* Strings *)

\* s * n
RECURSIVE Repeat(_, _)
Repeat(s, n) ==
    IF n <= 0 THEN ""
    ELSE IF n = 1 THEN s
    ELSE LET half == Repeat(s, n \div 2)
         IN  half \o half \o (IF n % 2 = 1 THEN s ELSE "")

\* sep.join(q)
RECURSIVE join(_, _)
join(sep, q) ==
    IF Len(q) = 0 THEN ""
    ELSE IF Len(q) = 1 THEN q[1]
    ELSE q[1] \o sep \o join(sep, Tail(q))

\* s.replace(old, new) for a one-character old (the string is split in halves)
RECURSIVE replace(_, _, _)
replace(s, old, new) ==
    IF Len(s) = 0 THEN ""
    ELSE IF Len(s) = 1 THEN (IF s = old THEN new ELSE s)
    ELSE LET mid == Len(s) \div 2
         IN  replace(SubSeq(s, 1, mid), old, new)
                 \o replace(SubSeq(s, mid + 1, Len(s)), old, new)

\* positions at which sub occurs in s
Occurrences(s, sub) ==
    {i \in 1..(Len(s) - Len(sub) + 1) : SubSeq(s, i, i + Len(sub) - 1) = sub}

Contains(s, sub) == Occurrences(s, sub) # {}

\* str(n) of an integer
RECURSIVE str_nat(_)
str_nat(n) ==
    IF n < 10 THEN SubSeq("0123456789", n + 1, n + 1)
    ELSE str_nat(n \div 10) \o SubSeq("0123456789", (n % 10) + 1, (n % 10) + 1)

str_int(n) == IF n < 0 THEN "-" \o str_nat(0 - n) ELSE str_nat(n)

\* template.format(*a) for a template whose only fields are "{}":
\* the k-th "{}" is replaced by the k-th argument
format(template, a) ==
    LET holes == Occurrences(template, "{}")
        n == Cardinality(holes)
        hole(k) == CHOOSE p \in holes : Cardinality({q \in holes : q < p}) = k - 1
        from(k) == IF k = 1 THEN 1 ELSE hole(k - 1) + 2
        RECURSIVE fill(_)
        fill(k) ==
            IF k > n THEN SubSeq(template, from(k), Len(template))
            ELSE SubSeq(template, from(k), hole(k) - 1) \o a[k] \o fill(k + 1)
    IN  fill(1)

\* TM1py.Utils.format_url: positional substitution into the URL template
format_url(template, a) == format(template, a)

\* the parentheses of s are matched: as many close as open, none closes early
Balanced(s) ==
    LET opens == Occurrences(s, "(")
        closes == Occurrences(s, ")")
    IN  /\ Cardinality(opens) = Cardinality(closes)
        /\ \A q \in closes :
              Cardinality({p \in opens : p < q}) >= Cardinality({r \in closes : r <= q})

----------------------------------------------------------------------------
(* The server: a hierarchy of one dimension behind the REST transport *)

DimensionName == "Region"
HierarchyName == "Region"
ElementNames == {"North", "South"}
ElementTypes == {"Numeric", "String", "Consolidated"}

\* name of the i-th node of a consolidation tree, in pre-order
NodeName(i) == SubSeq("ABCDEFGHIJKLMNOPQRSTUVWXYZ", i, i)

\* the consolidation trees of exactly n nodes whose root is node number i:
\* only Consolidated elements have components
RECURSIVE TreesOfSize(_, _), ForestsOfSize(_, _)
TreesOfSize(n, i) ==
    IF n < 1 THEN {}
    ELSE {[Name |-> NodeName(i), Type |-> "Consolidated", Components |-> f] :
              f \in ForestsOfSize(n - 1, i + 1)}
         \cup (IF n = 1
               THEN {[Name |-> NodeName(i), Type |-> t, Components |-> <<>>] :
                         t \in {"Numeric", "String"}}
               ELSE {})
ForestsOfSize(n, i) ==
    IF n = 0 THEN {<<>>}
    ELSE UNION {{<<t>> \o f : t \in TreesOfSize(k, i), f \in ForestsOfSize(n - k, i + k)} :
                    k \in 1..n}

Hierarchies == UNION {TreesOfSize(n, 1) : n \in 1..MaxNodes}

\* number of nested expansions of Components the URL asks for
ExpandLevels(url) == Cardinality(Occurrences(url, "$expand=Components"))

\* the element as the server returns it with Components expanded `levels` deep
RECURSIVE Expand(_, _)
Expand(node, levels) ==
    IF levels = 0 THEN [Name |-> node.Name, Type |-> node.Type]
    ELSE [Name |-> node.Name, Type |-> node.Type,
          Components |-> [j \in 1..Len(node.Components) |->
                              Expand(node.Components[j], levels - 1)]]

\* RestService.GET / POST / PATCH / DELETE: one transport call and what came back;
\* a non-success status makes the transport raise, and the body is never read
Call(method, url, body, status, json) ==
    [method |-> method, url |-> url, body |-> body, status |-> status,
     json |-> IF status = "ok" THEN json ELSE None]

\* an operation's outcome: the calls issued, the value returned, the failure raised
Returned(c, r) == [calls |-> c, result |-> r, raised |-> "none"]
\* the last call raised and nothing caught it
Raised(c) == [calls |-> c, result |-> NoResult, raised |-> c[Len(c)].status]


----------------------------------------------------------------------------
(* CRUD on one element *)

element_url(dimension_name, hierarchy_name, element_name) ==
    format_url("/api/v1/Dimensions('{}')/Hierarchies('{}')/Elements('{}')",
               <<dimension_name, hierarchy_name, element_name>>)

\* answer: the server's status for the call and the element it holds
get(dimension_name, hierarchy_name, element_name, answer) ==
    LET url == format_url("/api/v1/Dimensions('{}')/Hierarchies('{}')/Elements('{}')?$expand=*",
                          <<dimension_name, hierarchy_name, element_name>>)
        response == Call("GET", url, "", answer.status, answer.json)
    IN  IF response.status # "ok" THEN Raised(<<response>>)
        ELSE Returned(<<response>>, response.json)

\* element: [Name, Type]; element.body is sent as it is
create(dimension_name, hierarchy_name, element, answer) ==
    LET url == format_url("/api/v1/Dimensions('{}')/Hierarchies('{}')/Elements",
                          <<dimension_name, hierarchy_name>>)
        response == Call("POST", url, element, answer.status, None)
    IN  IF response.status # "ok" THEN Raised(<<response>>)
        ELSE Returned(<<response>>, response)

update(dimension_name, hierarchy_name, element, answer) ==
    LET url == element_url(dimension_name, hierarchy_name, element.Name)
        response == Call("PATCH", url, element, answer.status, None)
    IN  IF response.status # "ok" THEN Raised(<<response>>)
        ELSE Returned(<<response>>, response)

\* ObjectService._exists: a GET whose failure, not-found or other, reads as False
_exists(url, answer) ==
    LET response == Call("GET", url, "", answer.status, None)
    IN  Returned(<<response>>, response.status = "ok")

\* a slip: the element's name is left out of the URL that is probed
exists_of_collection(dimension_name, hierarchy_name, element_name, answer) ==
    _exists(format_url("/api/v1/Dimensions('{}')/Hierarchies('{}')/Elements",
                       <<dimension_name, hierarchy_name>>), answer)

exists(dimension_name, hierarchy_name, element_name, answer) ==
    _exists(element_url(dimension_name, hierarchy_name, element_name), answer)

delete(dimension_name, hierarchy_name, element_name, answer) ==
    LET url == element_url(dimension_name, hierarchy_name, element_name)
        response == Call("DELETE", url, "", answer.status, None)
    IN  IF response.status # "ok" THEN Raised(<<response>>)
        ELSE Returned(<<response>>, response)

----------------------------------------------------------------------------
(* Listings *)

\* [e["Name"] for e in value]
NamesOf(value) == [j \in 1..Len(value) |-> value[j].Name]

\* answer.json: ["value" |-> sequence of [Name]]
get_element_names(dimension_name, hierarchy_name, answer) ==
    LET url == format_url("/api/v1/Dimensions('{}')/Hierarchies('{}')/Elements?$select=Name",
                          <<dimension_name, hierarchy_name>>)
        response == Call("GET", url, "", answer.status, answer.json)
    IN  IF response.status # "ok" THEN Raised(<<response>>)
        ELSE Returned(<<response>>, NamesOf(response.json.value))

\* answer.json: ["value" |-> sequence of [Name, Type]], one per attribute
get_element_attributes(dimension_name, hierarchy_name, answer) ==
    LET url == format_url("/api/v1/Dimensions('{}')/Hierarchies('{}')/ElementAttributes",
                          <<dimension_name, hierarchy_name>>)
        response == Call("GET", url, "", answer.status, answer.json)
    IN  IF response.status # "ok" THEN Raised(<<response>>)
        ELSE Returned(<<response>>, response.json.value)

get_alias_element_attributes(dimension_name, hierarchy_name, answer) ==
    LET attributes == get_element_attributes(dimension_name, hierarchy_name, answer)
    IN  IF attributes.raised # "none" THEN attributes
        ELSE Returned(attributes.calls,
                      NamesOf(SelectSeq(attributes.result, LAMBDA attr : attr.Type = "Alias")))

----------------------------------------------------------------------------
(* Consolidation tree traversal *)

\* the nested get_members(element) of get_members_under_consolidation:
\* the names it appends to members, in order
RECURSIVE get_members(_, _)
get_members(element, leaves_only) ==
    IF element.Type = "Numeric" THEN <<element.Name>>
    ELSE IF element.Type = "Consolidated" THEN
        IF "Components" \in DOMAIN element THEN
            LET RECURSIVE loop(_)
                loop(j) ==
                    IF j > Len(element.Components) THEN <<>>
                    ELSE (IF ~leaves_only THEN <<element.Components[j].Name>> ELSE <<>>)
                         \o get_members(element.Components[j], leaves_only)
                         \o loop(j + 1)
            IN loop(1)
        ELSE <<>>
    ELSE <<>>

DefaultDepth == 99

\* the URL of get_members_under_consolidation
members_url(dimension_name, hierarchy_name, consolidation, max_depth) ==
    LET depth == IF Truthy(max_depth) THEN max_depth.val ELSE DefaultDepth
        bare_url == "/api/v1/Dimensions('{}')/Hierarchies('{}')/Elements('{}')?$select=Name,Type&$expand=Components("
        url0 == format_url(bare_url, <<dimension_name, hierarchy_name, consolidation>>)
        url1 == url0 \o Repeat("$select=Name,Type;$expand=Components(", depth)
    IN  SubSeq(url1, 1, Len(url1) - 1) \o Repeat(")", depth)

\* answer: the server's status for the one GET and the consolidation tree it holds
get_members_under_consolidation(dimension_name, hierarchy_name, consolidation, max_depth, leaves_only, answer) ==
    LET url == members_url(dimension_name, hierarchy_name, consolidation, max_depth)
        response == Call("GET", url, "", answer.status,
                         Expand(answer.tree, ExpandLevels(url)))
    IN  IF response.status # "ok" THEN Raised(<<response>>)
        ELSE Returned(<<response>>, get_members(response.json, leaves_only))

\* a slip: leaves_only is passed as False
get_leaves_all_members(dimension_name, hierarchy_name, consolidation, max_depth, answer) ==
    get_members_under_consolidation(dimension_name, hierarchy_name, consolidation,
                                    max_depth, FALSE, answer)

get_leaves_under_consolidation(dimension_name, hierarchy_name, consolidation, max_depth, answer) ==
    get_members_under_consolidation(dimension_name, hierarchy_name, consolidation,
                                    max_depth, TRUE, answer)

----------------------------------------------------------------------------
(* Attribute queries through MDX *)

\* TM1py.Utils.build_element_unique_names: "[dimension].[hierarchy].[element]" each
build_element_unique_names(dimension_name, element_names, hierarchy_name) ==
    [j \in 1..Len(element_names) |->
        "[" \o dimension_name \o "].[" \o hierarchy_name \o "].[" \o element_names[j] \o "]"]

\* the two-argument use: "[dimension].[element]" each
build_unique_names(dimension_name, element_names) ==
    [j \in 1..Len(element_names) |->
        "[" \o dimension_name \o "].[" \o element_names[j] \o "]"]

\* the MDX template of both attribute queries (each run of line breaks and
\* indentation written as one space)
attribute_mdx(elem_mdx, attr_mdx, dim) ==
    "SELECT { " \o elem_mdx \o " } ON ROWS, { " \o attr_mdx
        \o " } ON COLUMNS FROM [}ElementAttributes_" \o dim \o "]"

\* the rows of the query: str as it is, a list as unique names joined by ","
mdx_element_selection(dimension_name, hierarchy_name, elems) ==
    IF IsStr(elems) THEN elems.val
    ELSE join(",", build_element_unique_names(dimension_name, elems.val, hierarchy_name))

\* CellService.execute_mdx_rows_and_values_string_set: the query is sent, and the
\* answer is the set of strings among row elements and cell values
_retrieve_mdx_rows_and_cell_values_as_string_set(mdx, answer) ==
    LET response == Call("POST", "/api/v1/ExecuteMDX", [MDX |-> mdx],
                         answer.status, answer.json)
    IN  IF response.status # "ok" THEN Raised(<<response>>)
        ELSE Returned(<<response>>, response.json)

\* CellService.execute_mdx_rows_and_values: the query is sent, and the answer is
\* the mapping row elements -> cell values, here its items in order
_retrieve_mdx_rows_and_values(mdx, element_unique_names, answer) ==
    LET response == Call("POST", "/api/v1/ExecuteMDX",
                         [MDX |-> mdx, element_unique_names |-> element_unique_names],
                         answer.status, answer.json)
    IN  IF response.status # "ok" THEN Raised(<<response>>)
        ELSE Returned(<<response>>, response.json)

\* a slip: a failed fetch of the alias attributes is swallowed (no aliases) and the
\* query is executed all the same
get_element_identifiers_best_effort(dimension_name, hierarchy_name, elems, answers) ==
    LET alias_attributes ==
            get_alias_element_attributes(dimension_name, hierarchy_name, answers[1])
        names == IF alias_attributes.raised # "none" THEN <<>> ELSE alias_attributes.result
        mdx == attribute_mdx(
                   mdx_element_selection(dimension_name, hierarchy_name, elems),
                   join(",", build_unique_names("}ElementAttributes_" \o dimension_name,
                                                names)),
                   dimension_name)
        rows == _retrieve_mdx_rows_and_cell_values_as_string_set(mdx, answers[Len(answers)])
    IN  [calls |-> alias_attributes.calls \o rows.calls,
         result |-> rows.result, raised |-> rows.raised]

\* answers: for the ElementAttributes GET, then for the MDX query
get_element_identifiers(dimension_name, hierarchy_name, elems, answers) ==
    LET alias_attributes ==
            get_alias_element_attributes(dimension_name, hierarchy_name, answers[1])
    IN  IF alias_attributes.raised # "none" THEN alias_attributes
        ELSE LET mdx == attribute_mdx(
                     mdx_element_selection(dimension_name, hierarchy_name, elems),
                     join(",", build_unique_names("}ElementAttributes_" \o dimension_name,
                                                  alias_attributes.result)),
                     dimension_name)
                 rows == _retrieve_mdx_rows_and_cell_values_as_string_set(mdx, answers[2])
             IN  [calls |-> alias_attributes.calls \o rows.calls,
                  result |-> rows.result, raised |-> rows.raised]

\* dict[key] = value
DictSet(dict, key, value) ==
    [k \in DOMAIN dict \cup {key} |-> IF k = key THEN value ELSE dict[k]]

EmptyDict == [k \in {} |-> None]

\* a slip: the isinstance test is left out, so every truthy cell is kept
RECURSIVE extract_dict_any_type(_, _)
extract_dict_any_type(rows_and_values, exclude_empty_cells) ==
    IF Len(rows_and_values) = 0 THEN EmptyDict
    ELSE
        LET n == Len(rows_and_values)
            before == extract_dict_any_type(SubSeq(rows_and_values, 1, n - 1),
                                            exclude_empty_cells)
            row_elements == rows_and_values[n][1]
            cell_values == rows_and_values[n][2]
            RECURSIVE cells(_, _, _), rows(_, _)
            cells(result_set, row_element, j) ==
                IF j > Len(cell_values) THEN result_set
                ELSE LET cell_value == cell_values[j]
                     IN  IF Truthy(cell_value) \/ ~exclude_empty_cells
                         THEN cells(DictSet(result_set, row_element, cell_value),
                                    row_element, j + 1)
                         ELSE cells(result_set, row_element, j + 1)
            rows(result_set, i) ==
                IF i > Len(row_elements) THEN result_set
                ELSE rows(cells(result_set, row_elements[i], 1), i + 1)
        IN  rows(before, 1)

\* rows_and_values: the items of the mapping, <<row_elements, cell_values>> each
RECURSIVE _extract_dict_from_rows_and_values(_, _)
_extract_dict_from_rows_and_values(rows_and_values, exclude_empty_cells) ==
    IF Len(rows_and_values) = 0 THEN EmptyDict
    ELSE
        LET n == Len(rows_and_values)
            before == _extract_dict_from_rows_and_values(SubSeq(rows_and_values, 1, n - 1),
                                                         exclude_empty_cells)
            row_elements == rows_and_values[n][1]
            cell_values == rows_and_values[n][2]
            RECURSIVE cells(_, _, _), rows(_, _)
            cells(result_set, row_element, j) ==
                IF j > Len(cell_values) THEN result_set
                ELSE LET cell_value == cell_values[j]
                     IN  IF IsStr(cell_value)
                             /\ (Truthy(cell_value) \/ ~exclude_empty_cells)
                         THEN cells(DictSet(result_set, row_element, cell_value),
                                    row_element, j + 1)
                         ELSE cells(result_set, row_element, j + 1)
            rows(result_set, i) ==
                IF i > Len(row_elements) THEN result_set
                ELSE rows(cells(result_set, row_elements[i], 1), i + 1)
        IN  rows(before, 1)

\* answers: for the element-name GET when it is needed, then for the MDX query
get_attribute_of_elements(dimension_name, hierarchy_name, attribute, elems, exclude_empty_cells, element_unique_names, answers) ==
    LET names == IF ~Truthy(elems)
                 THEN get_element_names(dimension_name, hierarchy_name, answers[1])
                 ELSE Returned(<<>>, NoResult)
    IN  IF names.raised # "none" THEN names
        ELSE LET elems1 == IF ~Truthy(elems) THEN PyList(names.result) ELSE elems
                 mdx == attribute_mdx(
                     mdx_element_selection(dimension_name, hierarchy_name, elems1),
                     "[}ElementAttributes_" \o dimension_name \o "].[" \o attribute \o "]",
                     dimension_name)
                 rows_and_values == _retrieve_mdx_rows_and_values(mdx, element_unique_names,
                                                                 answers[Len(answers)])
             IN  IF rows_and_values.raised # "none"
                 THEN [calls |-> names.calls \o rows_and_values.calls,
                       result |-> NoResult, raised |-> rows_and_values.raised]
                 ELSE Returned(names.calls \o rows_and_values.calls,
                               _extract_dict_from_rows_and_values(rows_and_values.result,
                                                                  exclude_empty_cells))

----------------------------------------------------------------------------
(* Filtering by attribute value *)

\* str(x), as "{}".format(x) renders it (floats are modelled with integral values)
py_str(x) ==
    CASE x.type = "str" -> x.val
      [] x.type = "int" -> str_int(x.val)
      [] x.type = "float" -> str_int(x.val) \o ".0"

\* a slip: the spaces of the attribute name are kept
filter_url_keeping_spaces(dimension_name, hierarchy_name, attribute_name, attribute_value) ==
    IF IsStr(attribute_value)
    THEN format_url("/api/v1/Dimensions('{}')/Hierarchies('{}')?$expand=Elements($filter = Attributes/{} eq '{}';$select=Name)",
                    <<dimension_name, hierarchy_name, attribute_name,
                      py_str(attribute_value)>>)
    ELSE format_url("/api/v1/Dimensions('{}')/Hierarchies('{}')?$expand=Elements($filter = Attributes/{} eq {};$select=Name)",
                    <<dimension_name, hierarchy_name, attribute_name,
                      py_str(attribute_value)>>)

filter_url(dimension_name, hierarchy_name, attribute_name, attribute_value) ==
    LET attribute_name1 == replace(attribute_name, " ", "")
    IN  IF IsStr(attribute_value)
        THEN format_url("/api/v1/Dimensions('{}')/Hierarchies('{}')?$expand=Elements($filter = Attributes/{} eq '{}';$select=Name)",
                        <<dimension_name, hierarchy_name, attribute_name1,
                          py_str(attribute_value)>>)
        ELSE format_url("/api/v1/Dimensions('{}')/Hierarchies('{}')?$expand=Elements($filter = Attributes/{} eq {};$select=Name)",
                        <<dimension_name, hierarchy_name, attribute_name1,
                          py_str(attribute_value)>>)

\* the OData literals that denote a value: a string in single quotes, a number bare
\* (with or without a fraction)
ODataLiterals(value) ==
    IF IsStr(value) THEN {"'" \o value.val \o "'"}
    ELSE {str_int(value.val), str_int(value.val) \o ".0"}

\* the server's elements, of those it holds in order, that satisfy the $filter of the URL
ServerFilter(held, url) ==
    SelectSeq(held, LAMBDA e :
        \E field \in DOMAIN e.Attributes :
          \E literal \in ODataLiterals(e.Attributes[field]) :
            Contains(url, "($filter = Attributes/" \o field \o " eq " \o literal \o ";"))

\* answer: the server's status for the one GET and the elements it holds
get_elements_filtered_by_attribute(dimension_name, hierarchy_name, attribute_name, attribute_value, answer) ==
    LET url == filter_url(dimension_name, hierarchy_name, attribute_name, attribute_value)
        response == Call("GET", url, "", answer.status,
                         [Elements |-> ServerFilter(answer.held, url)])
    IN  IF response.status # "ok" THEN Raised(<<response>>)
        ELSE Returned(<<response>>, NamesOf(response.json.Elements))

----------------------------------------------------------------------------
(* Generic MDX-set execution *)

\* a slip: the expansions are left out only for None, not for an empty list
set_mdx_url_expanding_empty(top_records, member_properties, parent_properties, element_properties) ==
    LET top == IF Truthy(top_records) THEN "$top=" \o py_str(top_records) \o ";" ELSE ""
        member_properties1 ==
            IF ~Truthy(member_properties) THEN <<"Name">> ELSE member_properties.val
        select_member_properties == "$select=" \o join(",", member_properties1)
        expand_parent ==
            IF parent_properties # None
            THEN <<"Parent($select=" \o join(",", parent_properties.val) \o ")">>
            ELSE <<>>
        expand_element ==
            IF element_properties # None
            THEN <<"Element($select=" \o join(",", element_properties.val) \o ")">>
            ELSE <<>>
        properties_to_expand == expand_parent \o expand_element
        expand_properties ==
            IF Len(properties_to_expand) > 0
            THEN ";$expand=" \o join(",", properties_to_expand)
            ELSE ""
    IN  "/api/v1/ExecuteMDXSetExpression?$expand=Tuples(" \o top
            \o "$expand=Members(" \o select_member_properties
            \o expand_properties \o "))"

\* a slip: the limit is left out only for None, not for 0
set_mdx_url_top_unless_none(top_records, member_properties, parent_properties, element_properties) ==
    LET top == IF top_records # None THEN "$top=" \o py_str(top_records) \o ";" ELSE ""
        member_properties1 ==
            IF ~Truthy(member_properties) THEN <<"Name">> ELSE member_properties.val
        select_member_properties == "$select=" \o join(",", member_properties1)
        expand_parent ==
            IF Truthy(parent_properties)
            THEN <<"Parent($select=" \o join(",", parent_properties.val) \o ")">>
            ELSE <<>>
        expand_element ==
            IF Truthy(element_properties)
            THEN <<"Element($select=" \o join(",", element_properties.val) \o ")">>
            ELSE <<>>
        properties_to_expand == expand_parent \o expand_element
        expand_properties ==
            IF Len(properties_to_expand) > 0
            THEN ";$expand=" \o join(",", properties_to_expand)
            ELSE ""
    IN  "/api/v1/ExecuteMDXSetExpression?$expand=Tuples(" \o top
            \o "$expand=Members(" \o select_member_properties
            \o expand_properties \o "))"

set_mdx_url(top_records, member_properties, parent_properties, element_properties) ==
    LET top == IF Truthy(top_records) THEN "$top=" \o py_str(top_records) \o ";" ELSE ""
        member_properties1 ==
            IF ~Truthy(member_properties) THEN <<"Name">> ELSE member_properties.val
        select_member_properties == "$select=" \o join(",", member_properties1)
        expand_parent ==
            IF Truthy(parent_properties)
            THEN <<"Parent($select=" \o join(",", parent_properties.val) \o ")">>
            ELSE <<>>
        expand_element ==
            IF Truthy(element_properties)
            THEN <<"Element($select=" \o join(",", element_properties.val) \o ")">>
            ELSE <<>>
        properties_to_expand == expand_parent \o expand_element
        expand_properties ==
            IF Len(properties_to_expand) > 0
            THEN ";$expand=" \o join(",", properties_to_expand)
            ELSE ""
    IN  "/api/v1/ExecuteMDXSetExpression?$expand=Tuples(" \o top
            \o "$expand=Members(" \o select_member_properties
            \o expand_properties \o "))"

\* answer.json: ["Tuples" |-> sequence of ["Members" |-> ...]]
execute_set_mdx(mdx, top_records, member_properties, parent_properties, element_properties, answer) ==
    LET url == set_mdx_url(top_records, member_properties, parent_properties,
                           element_properties)
        response == Call("POST", url, [MDX |-> mdx], answer.status, answer.json)
    IN  IF response.status # "ok" THEN Raised(<<response>>)
        ELSE Returned(<<response>>,
                      [j \in 1..Len(response.json.Tuples) |-> response.json.Tuples[j].Members])

----------------------------------------------------------------------------
(* Inputs and server answers *)

FailStatuses == {"notfound", "error"}
Statuses == {"ok"} \cup FailStatuses

\* the sequences of at most n distinct members of S
RECURSIVE DistinctSeqs(_, _)
DistinctSeqs(S, n) ==
    IF n = 0 THEN {<<>>}
    ELSE LET shorter == DistinctSeqs(S, n - 1)
         IN  shorter \cup
             UNION {{Append(q, x) : x \in S \ {q[i] : i \in 1..Len(q)}} :
                        q \in {r \in shorter : Len(r) = n - 1}}

ElementRecords == [Name : ElementNames, Type : ElementTypes]

MaxDepthArgs == {None} \cup {PyInt(k) : k \in (0 - 1)..MaxDepthArg}

\* what the server may hold as the elements of the hierarchy, by name
NameLists == {[j \in 1..Len(q) |-> [Name |-> q[j]]] : q \in DistinctSeqs(ElementNames, MaxList)}

AttributeDefs ==
    {[Name |-> "Caption", Type |-> "Alias"], [Name |-> "Short Name", Type |-> "Alias"],
     [Name |-> "Size", Type |-> "Numeric"], [Name |-> "Note", Type |-> "String"]}
AttributeLists == DistinctSeqs(AttributeDefs, MaxList)

MdxSet == "{Tm1SubsetAll([Region].[Region])}"
ElementSelections ==
    {None, PyStr(""), PyStr(MdxSet), PyList(<<>>), PyList(<<"North">>),
     PyList(<<"South", "North">>)}

StringSets == {{}, {"North", "Norden"}}

\* a cell of the attribute cube: a string, empty or not, a number, or nothing
CellValues == {PyStr(""), PyStr("Jan"), PyFloat(1), None}
\* the answer to a query with one attribute on columns: one element and one cell a row
RowsAndValues ==
    {[j \in 1..Len(q) |-> <<(<<q[j]>>), (<<v[j]>>)>>] :
        q \in DistinctSeqs(ElementNames, MaxRows), v \in [1..MaxRows -> CellValues]}

\* the elements the server holds for the attribute filter, in its order
North == [Name |-> "North", Attributes |-> [FullName |-> PyStr("Upper"), Rank |-> PyInt(1)]]
South == [Name |-> "South", Attributes |-> [FullName |-> PyStr("Lower"), Rank |-> PyInt(1)]]
East == [Name |-> "East", Attributes |-> [FullName |-> PyStr("Upper"), Rank |-> PyInt(2)]]
HeldElements == {<<North, South, East>>, <<East, South, North>>, <<South>>}
AttributeNames == {"Full Name", "FullName", " Rank ", "Rank"}
AttributeValues == {PyStr("Upper"), PyStr("Lower"), PyStr("1"), PyInt(1), PyInt(2), PyFloat(2)}

TopRecords == {None} \cup {PyInt(k) : k \in (0 - 1)..MaxTop}
MemberProperties ==
    {None, PyList(<<>>), PyList(<<"Name", "Weight">>), PyList(<<"Weight">>),
     PyList(<<"Name">>), PyList(<<"Weight", "Name">>)}
ParentProperties ==
    {None, PyList(<<>>), PyList(<<"Name", "UniqueName">>), PyList(<<"UniqueName">>)}
ElementProperties ==
    {None, PyList(<<>>), PyList(<<"Type", "Level">>), PyList(<<"Level">>)}
TupleLists ==
    {<<>>, <<[Members |-> <<[Name |-> "North"]>>], [Members |-> <<[Name |-> "South"]>>]>>}

----------------------------------------------------------------------------
(* Calls: each operation applied once to arguments and server answers drawn   *)
(* from the sets above.  The initial state holds the call about to be made.   *)

Start(name, a, s) ==
    /\ op = name
    /\ args = a
    /\ srv = s

\* one answer a call; after a failed call no other is looked at
AnswerPairs(first, second) ==
    {<<a>> : a \in {x \in first : x.status # "ok"}}
        \cup {<<a, b>> : a \in {x \in first : x.status = "ok"}, b \in second}

Failures == {[status |-> s, json |-> None] : s \in FailStatuses}
NameAnswers == {[status |-> "ok", json |-> [value |-> v]] : v \in NameLists} \cup Failures
AttributeAnswers ==
    {[status |-> "ok", json |-> [value |-> v]] : v \in AttributeLists} \cup Failures
StringSetAnswers == {[status |-> "ok", json |-> v] : v \in StringSets} \cup Failures
RowsAnswers == {[status |-> "ok", json |-> v] : v \in RowsAndValues} \cup Failures
TupleAnswers == {[status |-> "ok", json |-> [Tuples |-> v]] : v \in TupleLists} \cup Failures

Init ==
    /\ elements = {}
    /\ created = {}
    /\ pc = "call"
    /\ calls = <<>>
    /\ result = NoResult
    /\ raised = "none"
    /\ \/ \E e \in ElementRecords, s \in Statuses :
            Start("get", [element_name |-> e.Name], <<[status |-> s, json |-> e]>>)
       \/ \E e \in ElementRecords, s \in Statuses :
            Start("create", [element |-> e], <<[status |-> s]>>)
       \/ \E e \in ElementRecords, s \in Statuses :
            Start("update", [element |-> e], <<[status |-> s]>>)
       \/ \E n \in ElementNames, s \in Statuses :
            Start("exists", [element_name |-> n], <<[status |-> s]>>)
       \/ \E n \in ElementNames, s \in Statuses :
            Start("delete", [element_name |-> n], <<[status |-> s]>>)
       \/ \E a \in NameAnswers : Start("get_element_names", <<>>, <<a>>)
       \/ \E a \in AttributeAnswers : Start("get_element_attributes", <<>>, <<a>>)
       \/ \E a \in AttributeAnswers : Start("get_alias_element_attributes", <<>>, <<a>>)
       \/ \E e \in ElementSelections \ {None},
             a \in AnswerPairs(AttributeAnswers, StringSetAnswers) :
            Start("get_element_identifiers", [elements |-> e], a)
       \/ \E e \in ElementSelections, x \in BOOLEAN, u \in BOOLEAN,
             a \in AnswerPairs(NameAnswers, RowsAnswers) \cup {<<r>> : r \in RowsAnswers} :
            /\ Truthy(e) <=> Len(a) = 1 /\ a[1] \in RowsAnswers
            /\ Start("get_attribute_of_elements",
                     [attribute |-> "Caption", elements |-> e, exclude_empty_cells |-> x,
                      element_unique_names |-> u], a)
       \/ \E n \in AttributeNames, v \in AttributeValues, held \in HeldElements,
             s \in Statuses :
            Start("get_elements_filtered_by_attribute",
                  [attribute_name |-> n, attribute_value |-> v],
                  <<[status |-> s, held |-> held]>>)
       \/ \E tree \in Hierarchies, d \in MaxDepthArgs, s \in Statuses :
            Start("get_leaves_under_consolidation",
                  [consolidation |-> tree.Name, max_depth |-> d],
                  <<[status |-> s, tree |-> tree]>>)
       \/ \E tree \in Hierarchies, d \in MaxDepthArgs, l \in BOOLEAN, s \in Statuses :
            Start("get_members_under_consolidation",
                  [consolidation |-> tree.Name, max_depth |-> d, leaves_only |-> l],
                  <<[status |-> s, tree |-> tree]>>)
       \/ \E t \in TopRecords, m \in MemberProperties, p \in ParentProperties,
             e \in ElementProperties, a \in TupleAnswers :
            Start("execute_set_mdx",
                  [mdx |-> MdxSet, top_records |-> t, member_properties |-> m,
                   parent_properties |-> p, element_properties |-> e], <<a>>)

\* the operation has run: its outcome is recorded
Finish(name, out) ==
    /\ pc = "call"
    /\ op = name
    /\ pc' = "done"
    /\ calls' = out.calls
    /\ result' = out.result
    /\ raised' = out.raised
    /\ UNCHANGED <<elements, created, op, args, srv>>

Get ==
    Finish("get", get(DimensionName, HierarchyName, args.element_name, srv[1]))
Create ==
    Finish("create", create(DimensionName, HierarchyName, args.element, srv[1]))
Update ==
    Finish("update", update(DimensionName, HierarchyName, args.element, srv[1]))
Exists ==
    Finish("exists", exists(DimensionName, HierarchyName, args.element_name, srv[1]))
Delete ==
    Finish("delete", delete(DimensionName, HierarchyName, args.element_name, srv[1]))
GetElementNames ==
    Finish("get_element_names", get_element_names(DimensionName, HierarchyName, srv[1]))
GetElementAttributes ==
    Finish("get_element_attributes",
           get_element_attributes(DimensionName, HierarchyName, srv[1]))
GetAliasElementAttributes ==
    Finish("get_alias_element_attributes",
           get_alias_element_attributes(DimensionName, HierarchyName, srv[1]))
GetElementIdentifiers ==
    Finish("get_element_identifiers",
           get_element_identifiers(DimensionName, HierarchyName, args.elements, srv))
GetAttributeOfElements ==
    Finish("get_attribute_of_elements",
           get_attribute_of_elements(DimensionName, HierarchyName, args.attribute,
               args.elements, args.exclude_empty_cells, args.element_unique_names, srv))
GetElementsFilteredByAttribute ==
    Finish("get_elements_filtered_by_attribute",
           get_elements_filtered_by_attribute(DimensionName, HierarchyName,
               args.attribute_name, args.attribute_value, srv[1]))
GetLeavesUnderConsolidation ==
    Finish("get_leaves_under_consolidation",
           get_leaves_under_consolidation(DimensionName, HierarchyName,
               args.consolidation, args.max_depth, srv[1]))
GetMembersUnderConsolidation ==
    Finish("get_members_under_consolidation",
           get_members_under_consolidation(DimensionName, HierarchyName,
               args.consolidation, args.max_depth, args.leaves_only, srv[1]))
ExecuteSetMdx ==
    Finish("execute_set_mdx",
           execute_set_mdx(args.mdx, args.top_records, args.member_properties,
               args.parent_properties, args.element_properties, srv[1]))

Next ==
    \/ Get
    \/ Create
    \/ Update
    \/ Exists
    \/ Delete
    \/ GetElementNames
    \/ GetElementAttributes
    \/ GetAliasElementAttributes
    \/ GetElementIdentifiers
    \/ GetAttributeOfElements
    \/ GetElementsFilteredByAttribute
    \/ GetLeavesUnderConsolidation
    \/ GetMembersUnderConsolidation
    \/ ExecuteSetMdx

Spec == Init /\ [][Next]_vars

----------------------------------------------------------------------------
(* The server keeps its elements from one call to the next: any sequence of   *)
(* create, delete and exists calls.                                           *)

ServerCollection ==
    "/api/v1/Dimensions('" \o DimensionName \o "')/Hierarchies('" \o HierarchyName
        \o "')/Elements"
ServerPath(name) == ServerCollection \o "('" \o name \o "')"

\* the status the transport reports for a request, the server holding `held`:
\* the transport itself may fail; a POST of a name already held is refused;
\* a path that names no held element is not found
ServerStatus(held, request, transport) ==
    IF transport # "ok" THEN "error"
    ELSE IF request.method = "POST"
        THEN (IF request.url = ServerCollection /\ request.body.Name \notin held
              THEN "ok" ELSE "error")
    ELSE IF \E n \in held : request.url = ServerPath(n) THEN "ok"
    ELSE "notfound"

\* what the server holds after the request
ServerAfter(held, request, status) ==
    IF status # "ok" THEN held
    ELSE IF request.method = "POST" THEN held \cup {request.body.Name}
    ELSE IF request.method = "DELETE" THEN held \ {n \in held : request.url = ServerPath(n)}
    ELSE held

InitServer ==
    /\ elements = {}
    /\ created = {}
    /\ pc = "done"
    /\ op = "init"
    /\ args = <<>>
    /\ srv = <<>>
    /\ calls = <<>>
    /\ result = NoResult
    /\ raised = "none"

\* one call of an operation against the server: `outcomes` gives what the
\* operation does under each status, and the request it sends is answered from
\* what the server holds
Serve(name, a, outcomes, transport) ==
    LET request == outcomes["ok"].calls[1]
        status == ServerStatus(elements, request, transport)
        out == outcomes[status]
    IN  /\ pc' = "done"
        /\ op' = name
        /\ args' = a
        /\ srv' = <<[status |-> status]>>
        /\ calls' = out.calls
        /\ result' = out.result
        /\ raised' = out.raised
        /\ elements' = ServerAfter(elements, request, status)
        /\ created' = IF request.method = "POST" /\ status = "ok"
                      THEN created \cup {request.body.Name} ELSE created

CreateOnServer ==
    \E e \in ElementRecords, transport \in {"ok", "error"} :
        Serve("create", [element |-> e],
              [s \in Statuses |-> create(DimensionName, HierarchyName, e, [status |-> s])], transport)

DeleteOnServer ==
    \E n \in ElementNames, transport \in {"ok", "error"} :
        Serve("delete", [element_name |-> n],
              [s \in Statuses |-> delete(DimensionName, HierarchyName, n, [status |-> s])], transport)

ExistsOnServer ==
    \E n \in ElementNames, transport \in {"ok", "error"} :
        Serve("exists", [element_name |-> n],
              [s \in Statuses |-> exists(DimensionName, HierarchyName, n, [status |-> s])], transport)

NextServer ==
    \/ CreateOnServer
    \/ DeleteOnServer
    \/ ExistsOnServer

SpecServer == InitServer /\ [][NextServer]_vars

----------------------------------------------------------------------------
(* Properties *)

Done(name) == pc = "done" /\ op = name

\* the concatenation of the sequences of q
RECURSIVE Concat(_)
Concat(q) == IF Len(q) = 0 THEN <<>> ELSE q[1] \o Concat(Tail(q))

\* the nodes of a returned tree, [Name, Type] each, in depth-first pre-order
RECURSIVE PreorderNodes(_)
PreorderNodes(node) ==
    <<[Name |-> node.Name, Type |-> node.Type]>>
        \o (IF "Components" \in DOMAIN node
            THEN Concat([j \in 1..Len(node.Components) |-> PreorderNodes(node.Components[j])])
            ELSE <<>>)

\* A:Consolidated -> [B:Numeric, C:Consolidated -> [D:Numeric]], as the server holds it
ExampleTree ==
    [Name |-> "A", Type |-> "Consolidated", Components |-> <<
        [Name |-> "B", Type |-> "Numeric", Components |-> <<>>],
        [Name |-> "C", Type |-> "Consolidated", Components |-> <<
            [Name |-> "D", Type |-> "Numeric", Components |-> <<>>]>>]>>]

\* the tree the operation was answered with
ReturnedTree == calls[1].json

\* C1: with leaves_only = false and a Consolidated root, the result of
\* get_members_under_consolidation is the names of the root's descendants in
\* depth-first pre-order, one entry for each position of the tree; on
\* A -> [B, C -> [D]] it is exactly [B, C, D].
C1_MembersArePreorderDescendants ==
    (/\ Done("get_members_under_consolidation")
     /\ raised = "none"
     /\ ~args.leaves_only
     /\ ReturnedTree.Type = "Consolidated")
    => /\ result = Tail(NamesOf(PreorderNodes(ReturnedTree)))
       /\ (srv[1].tree = ExampleTree /\ ExpandLevels(calls[1].url) >= 2)
              => result = <<"B", "C", "D">>

\* the example tree, where B and D come back twice
C1_Witness ==
    /\ Done("get_members_under_consolidation")
    /\ ~args.leaves_only
    /\ srv[1].tree = ExampleTree
    /\ ReturnedTree = ExampleTree
    /\ result = <<"B", "B", "C", "D", "D">>

\* C2: get_leaves_under_consolidation returns what get_members_under_consolidation
\* returns with leaves_only = true, and for a Consolidated root that is exactly the
\* names of the Numeric nodes of the tree in depth-first order, no Consolidated
\* node's name among them; on A -> [B, C -> [D]] it is exactly [B, D].
C2_LeavesAreNumericNodes ==
    (Done("get_leaves_under_consolidation") /\ raised = "none"
        /\ ReturnedTree.Type = "Consolidated")
    => LET nodes == PreorderNodes(ReturnedTree)
       IN  /\ result = get_members_under_consolidation(DimensionName, HierarchyName,
                           args.consolidation, args.max_depth, TRUE, srv[1]).result
           /\ result = NamesOf(SelectSeq(nodes, LAMBDA n : n.Type = "Numeric"))
           /\ \A j \in 1..Len(result), k \in 1..Len(nodes) :
                  nodes[k].Type = "Consolidated" => result[j] # nodes[k].Name
           /\ (srv[1].tree = ExampleTree /\ ExpandLevels(calls[1].url) >= 2)
                  => result = <<"B", "D">>

C2_Witness ==
    /\ Done("get_leaves_under_consolidation")
    /\ srv[1].tree = ExampleTree
    /\ ReturnedTree = ExampleTree
    /\ result = <<"B", "D">>

\* the rows and cell values the attribute query was answered with
ReturnedRows == calls[Len(calls)].json

\* C3: the mapping returned by get_attribute_of_elements has an entry
\* element -> value exactly for the rows whose cell value is a string that is
\* non-empty or met with exclude_empty_cells = false; a cell that is no string
\* gives no entry whatever the flag, and nothing else is in the mapping.
C3_AttributeEntriesAreKeptStrings ==
    (Done("get_attribute_of_elements") /\ raised = "none")
    => /\ \A j \in 1..Len(ReturnedRows) :
              LET row_element == ReturnedRows[j][1][1]
                  cell_value == ReturnedRows[j][2][1]
                  kept == /\ cell_value.type = "str"
                          /\ (cell_value.val # "" \/ ~args.exclude_empty_cells)
              IN  /\ row_element \in DOMAIN result <=> kept
                  /\ kept => result[row_element] = cell_value
       /\ DOMAIN result \subseteq {ReturnedRows[j][1][1] : j \in 1..Len(ReturnedRows)}

C3_Witness ==
    /\ Done("get_attribute_of_elements")
    /\ raised = "none"
    /\ args.exclude_empty_cells
    /\ ReturnedRows = << <<(<<"North">>), (<<PyStr("")>>)>>,
                         <<(<<"South">>), (<<PyStr("Jan")>>)>> >>
    /\ DOMAIN result = {"South"}
    /\ result["South"] = PyStr("Jan")

\* the request the operation sent first
Url == calls[1].url

\* the text of s between the first occurrence of `open` and the next `close`
Between(s, open, close) ==
    LET start == CHOOSE p \in Occurrences(s, open) :
                     \A q \in Occurrences(s, open) : p <= q
        from == start + Len(open)
        stop == CHOOSE p \in {q \in Occurrences(s, close) : q >= from} :
                    \A q \in Occurrences(s, close) : q >= from => p <= q
    IN  SubSeq(s, from, stop - 1)

\* C5: the URL of execute_set_mdx has a Parent($select=...) fragment exactly when
\* parent_properties is non-empty and an Element($select=...) fragment exactly
\* when element_properties is non-empty, each selecting the requested fields in
\* the given order; with both empty nothing but Tuples and Members is expanded.
C5_ExpansionsFollowProperties ==
    Done("execute_set_mdx")
    => /\ Contains(Url, "Parent(") <=> Truthy(args.parent_properties)
       /\ Contains(Url, "Element(") <=> Truthy(args.element_properties)
       /\ Truthy(args.parent_properties)
              => /\ Cardinality(Occurrences(Url, "Parent(")) = 1
                 /\ Between(Url, "$expand=Parent($select=", ")")
                        = join(",", args.parent_properties.val)
       /\ Truthy(args.element_properties)
              => /\ Cardinality(Occurrences(Url, "Element(")) = 1
                 /\ Between(Url, "Element($select=", ")")
                        = join(",", args.element_properties.val)
       /\ (~Truthy(args.parent_properties) /\ ~Truthy(args.element_properties))
              => Cardinality(Occurrences(Url, "$expand=")) = 2

C5_Witness ==
    /\ Done("execute_set_mdx")
    /\ args.parent_properties = PyList(<<"Name", "UniqueName">>)
    /\ args.element_properties = PyList(<<>>)
    /\ Contains(Url, ";$expand=Parent($select=Name,UniqueName))")
    /\ ~Contains(Url, "Element(")

\* the characters of s that are no space, in order
StripSpaces(s) ==
    join("", SelectSeq([i \in 1..Len(s) |-> SubSeq(s, i, i)], LAMBDA c : c # " "))

IsNumber(value) == value.type \in {"int", "float"}

\* the elements, of those the server holds, whose attribute has the value
Matching(held, attribute_name, attribute_value) ==
    SelectSeq(held, LAMBDA e :
        /\ StripSpaces(attribute_name) \in DOMAIN e.Attributes
        /\ LET own == e.Attributes[StripSpaces(attribute_name)]
           IN  \/ IsStr(own) /\ IsStr(attribute_value) /\ own.val = attribute_value.val
               \/ IsNumber(own) /\ IsNumber(attribute_value) /\ own.val = attribute_value.val)

\* C6: the filter of get_elements_filtered_by_attribute reads
\* Attributes/<name> eq <value>, the name without its spaces, a string value in
\* single quotes and a numeric value bare; the operation returns the names of the
\* server's matching elements in the server's order.
C6_FilterQuotesStringsOnly ==
    Done("get_elements_filtered_by_attribute")
    => /\ Between(Url, "$filter = ", ";")
              = "Attributes/" \o StripSpaces(args.attribute_name) \o " eq "
                    \o (IF args.attribute_value.type = "str"
                        THEN "'" \o args.attribute_value.val \o "'"
                        ELSE py_str(args.attribute_value))
       /\ ~Contains(Between(Url, "$filter = Attributes/", " eq "), " ")
       /\ args.attribute_value.type # "str" => ~Contains(Between(Url, "$filter = ", ";"), "'")
       /\ raised = "none"
              => result = NamesOf(Matching(srv[1].held, args.attribute_name,
                                           args.attribute_value))

C6_Witness ==
    /\ Done("get_elements_filtered_by_attribute")
    /\ args.attribute_name = "Full Name"
    /\ args.attribute_value = PyStr("Upper")
    /\ Contains(Url, "($filter = Attributes/FullName eq 'Upper';$select=Name)")
    /\ srv[1].held = <<North, South, East>>
    /\ result = <<"North", "East">>

\* C7: whatever member_properties is, Name is one of the fields of the member
\* $select of the request of execute_set_mdx.
C7_MemberSelectHasName ==
    Done("execute_set_mdx")
    => LET selected == Between(Between(Url, "$expand=Members($select=", ")") \o ";", "", ";")
       IN  Contains("," \o selected \o ",", ",Name,")

\* member_properties = ['Weight']: Weight alone is selected
C7_Witness ==
    /\ Done("execute_set_mdx")
    /\ args.member_properties = PyList(<<"Weight">>)
    /\ args.top_records = None
    /\ args.parent_properties = None
    /\ args.element_properties = None
    /\ Url = "/api/v1/ExecuteMDXSetExpression?$expand=Tuples($expand=Members($select=Weight))"

\* C8: the URL of get_members_under_consolidation expands Components exactly
\* max_depth levels deep, 99 when max_depth is not passed, and its parentheses
\* are matched.
C8_ExpandsMaxDepthLevels ==
    Done("get_members_under_consolidation")
    => /\ ExpandLevels(Url) = (IF args.max_depth = None THEN 99 ELSE args.max_depth.val)
       /\ Balanced(Url)

\* max_depth = 1: Components is expanded two levels deep
C8_Witness ==
    /\ Done("get_members_under_consolidation")
    /\ args.max_depth = PyInt(1)
    /\ ExpandLevels(Url) = 2
    /\ Url = "/api/v1/Dimensions('Region')/Hierarchies('Region')/Elements('A')"
               \o "?$select=Name,Type&$expand=Components($select=Name,Type;$expand=Components)"

\* C9: whatever the type of the root and whatever leaves_only, the name of the
\* root is not in the result of get_members_under_consolidation.
C9_RootIsNeverAMember ==
    (Done("get_members_under_consolidation") /\ raised = "none")
    => \A j \in 1..Len(result) : result[j] # ReturnedTree.Name

\* a Numeric root: its own name is the result
C9_Witness ==
    /\ Done("get_members_under_consolidation")
    /\ raised = "none"
    /\ ReturnedTree.Type = "Numeric"
    /\ ReturnedTree.Name = "A"
    /\ result = <<"A">>

C4_ExistsIsAProbe ==
    /\ [](op = "exists"
            => /\ raised = "none"
               /\ result \in BOOLEAN
               /\ args.element_name \notin created => result = FALSE
               /\ calls[1].status \in FailStatuses => result = FALSE)
    /\ [][(/\ op = "create"
           /\ raised = "none"
           /\ op' = "exists"
           /\ args'.element_name = args.element.Name
           /\ calls'[1].status # "error")
          => result' = TRUE]_vars

C4_Witness ==
    /\ op = "exists"
    /\ args.element_name \in created
    /\ args.element_name \in elements
    /\ calls[1].status = "ok"
    /\ result = TRUE

====
